---- MODULE Spec2Model ----
(***************************************************************************)
(* A model of shmemq: a fixed-capacity queue of fixed-size elements kept   *)
(* in a named POSIX shared memory segment (src/shmemq.c), and of the way   *)
(* src/main.c uses it.                                                     *)
(*                                                                         *)
(* One queue name is modelled.  A segment is a shared memory object: the   *)
(* struct shmemq_info header (lock, read_index, write_index) followed by   *)
(* the data array.  Every process owns at most one handle (struct _shmemq) *)
(* at a time.  Each action is one step of one process; a step is at most   *)
(* one access to the shared segment or one system call, so that every      *)
(* interleaving of the processes the operating system can produce is an    *)
(* interleaving of actions.                                                *)
(***************************************************************************)
EXTENDS Integers, Sequences, FiniteSets, TLC

(***************************************************************************)
(* Bounds of the model.                                                    *)
(***************************************************************************)
NumProcs == 2       \* processes that attach to the queue
MaxCount == 2       \* max_count the queue is created with
ElementSize == 2    \* element_size the queue is created with, in bytes
NumValues == 2      \* distinct payloads a producer chooses from
MaxEnqueues == 3    \* calls to shmemq_try_enqueue start while fewer succeeded
MaxSegs == 2        \* shared memory objects ever created under the name
IndexBits == 5      \* width of unsigned long, scaled down
IntBits == 3        \* width of int and of unsigned int, scaled down
Repetitions == 2    \* REPETITIONS of src/main.c, scaled down

Procs == 1..NumProcs
Segs == 1..MaxSegs
Values == 1..NumValues

\* unsigned long arithmetic of read_index and write_index
ULongModulus == 2 ^ IndexBits

\* a subtraction that does not wrap: 0 when b is the larger
USub_clamped(a, b) == IF a >= b THEN a - b ELSE 0

USub(a, b) == (a - b + ULongModulus) % ULongModulus

\* an increment by one byte instead of one element
UAdd_one(a, b) == (a + 1) % ULongModulus

UAdd(a, b) == (a + b) % ULongModulus

\* int and unsigned int: the types of len and of element_size
UIntModulus == 2 ^ IntBits

IntRange == (0 - UIntModulus \div 2)..(UIntModulus \div 2 - 1)

UIntRange == 0..(UIntModulus - 1)

\* the conversion of an int to unsigned int
ToUInt(i) == i % UIntModulus

\* the element a caller passes for value v: es bytes, all different
Payload(v, es) == [i \in 1..es |-> 10 * v + i]

\* what a caller's buffer holds before the first dequeue into it
NoElement == << >>

VARIABLES
  shm_name,   \* the segment the queue's name is linked to; 0: no such object
  shm,        \* the shared memory objects: size, header and data array
  self,       \* each process's handle (struct _shmemq)
  created,    \* shmemq_new's local of that name
  pc,         \* where each process is
  element,    \* the buffer the process passed to the call
  len,        \* the len the process passed to the call
  enqueued,   \* per segment: payloads of the successful enqueues, in order
  dequeued    \* per segment: what the successful dequeues copied out, in order

vars == << shm_name, shm, self, created, pc, element, len,
           enqueued, dequeued >>

shared == << shm_name, shm >>

(***************************************************************************)
(* struct _shmemq and struct shmemq_info                                   *)
(***************************************************************************)
\* a process without a handle
NoHandle == [max_count |-> 0, element_size |-> 0, max_size |-> 0,
             shmem_fd |-> -1, mem |-> 0]

\* a shared memory object that does not exist
NoSegment == [exists |-> FALSE, size |-> -1, lock_init |-> FALSE, lock |-> 0,
              read_index |-> 0, write_index |-> 0, data |-> << >>]

\* shm_open with O_CREAT of an absent name: an object of length zero, which
\* holds no header yet (size -1); any access to its mapping raises SIGBUS
Fresh == [NoSegment EXCEPT !.exists = TRUE]

\* ftruncate on a fresh object: the whole object reads as zero bytes; size is
\* the number of bytes of the data array the object then holds
ZeroFilled(n) == [exists |-> TRUE, size |-> n, lock_init |-> FALSE, lock |-> 0,
                  read_index |-> 0, write_index |-> 0,
                  data |-> [i \in 0..(n - 1) |-> 0]]

\* the header after the creator's initialization
Initialized(m) == [m EXCEPT !.read_index = 0, !.write_index = 0,
                            !.lock_init = TRUE, !.lock = 0]

mem(p) == shm[self[p].mem]

(***************************************************************************)
(* shmemq_new                                                              *)
(***************************************************************************)
\* lines 35-49 and 59-61: the handle is allocated and filled in from the
\* arguments (max_size is an unsigned long product), and shm_open(name, O_RDWR) opens the object when there is one;
\* a caller that opened it skips ftruncate
shmemq_new(p, max_count, element_size) ==
  /\ pc[p] = "idle"
  /\ self' = [self EXCEPT ![p] = [max_count |-> max_count,
                                  element_size |-> element_size,
                                  max_size |-> (max_count * element_size) % ULongModulus,
                                  shmem_fd |-> IF shm_name # 0 THEN shm_name ELSE -1,
                                  mem |-> 0]]
  /\ created' = [created EXCEPT ![p] = FALSE]
  /\ pc' = [pc EXCEPT ![p] = IF shm_name # 0 THEN "new_mmap" ELSE "new_create"]
  /\ UNCHANGED << shm_name, shm, element, len, enqueued, dequeued >>

\* the object shm_open creates: the first one that does not exist yet
NewSegment == CHOOSE s \in Segs : ~shm[s].exists /\ \A t \in 1..(s - 1) : shm[t].exists

\* lines 50-54: shm_open(name, O_RDWR | O_CREAT), without O_EXCL, creates the
\* object when the name is still absent and opens the existing one otherwise;
\* created is set in both cases
new_create(p) ==
  /\ pc[p] = "new_create"
  /\ IF shm_name = 0
       THEN /\ \E s \in Segs : ~shm[s].exists
            /\ shm_name' = NewSegment
            /\ shm' = [shm EXCEPT ![NewSegment] = Fresh]
            /\ enqueued' = [enqueued EXCEPT ![NewSegment] = << >>]
            /\ dequeued' = [dequeued EXCEPT ![NewSegment] = << >>]
       ELSE UNCHANGED << shm_name, shm, enqueued, dequeued >>
  /\ self' = [self EXCEPT ![p].shmem_fd = shm_name']
  /\ created' = [created EXCEPT ![p] = TRUE]
  /\ pc' = [pc EXCEPT ![p] = "new_truncate"]
  /\ UNCHANGED << element, len >>

\* ftruncate(fd, mmap_size): the object gets the creator's size; bytes it did
\* not hold before read as zero, the bytes it held are kept
Truncated(m, n) ==
  IF m.size = -1 THEN ZeroFilled(n)
  ELSE [m EXCEPT !.size = n,
                 !.data = [i \in 0..(n - 1) |-> IF i < m.size THEN m.data[i] ELSE 0]]

\* lines 59-61: the creator sizes the object
new_truncate(p) ==
  /\ pc[p] = "new_truncate"
  /\ shm' = [shm EXCEPT ![self[p].shmem_fd] = Truncated(@, self[p].max_size)]
  /\ pc' = [pc EXCEPT ![p] = "new_mmap"]
  /\ UNCHANGED << shm_name, self, created, element, len, enqueued, dequeued >>

\* a mapping step that refuses an object whose size is not the caller's
new_mmap_verifies(p) ==
  /\ pc[p] = "new_mmap"
  /\ self' = [self EXCEPT ![p].mem = self[p].shmem_fd]
  /\ pc' = [pc EXCEPT ![p] = IF created[p] THEN "new_init"
                             ELSE IF shm[self[p].shmem_fd].size = self[p].max_size
                                    THEN "ready" ELSE "new_fail"]
  /\ UNCHANGED << shm_name, shm, created, element, len, enqueued, dequeued >>

\* lines 63-67 and 80: the object is mapped; a caller that did not create it
\* returns its handle at once
new_mmap(p) ==
  /\ pc[p] = "new_mmap"
  /\ self' = [self EXCEPT ![p].mem = self[p].shmem_fd]
  /\ pc' = [pc EXCEPT ![p] = IF created[p] THEN "new_init" ELSE "ready"]
  /\ UNCHANGED << shm_name, shm, created, element, len, enqueued, dequeued >>

\* line 68: the creator's two stores, read_index = write_index = 0, which the
\* language leaves unordered
new_store_write_index(p) ==
  /\ pc[p] \in {"new_init", "new_init_w"}
  /\ shm' = [shm EXCEPT ![self[p].mem].write_index = 0]
  /\ pc' = [pc EXCEPT ![p] = IF pc[p] = "new_init" THEN "new_init_r" ELSE "new_mutex"]
  /\ UNCHANGED << shm_name, self, created, element, len, enqueued, dequeued >>

new_store_read_index(p) ==
  /\ pc[p] \in {"new_init", "new_init_r"}
  /\ shm' = [shm EXCEPT ![self[p].mem].read_index = 0]
  /\ pc' = [pc EXCEPT ![p] = IF pc[p] = "new_init" THEN "new_init_w" ELSE "new_mutex"]
  /\ UNCHANGED << shm_name, self, created, element, len, enqueued, dequeued >>

\* lines 69-80: pthread_mutex_init leaves the mutex unlocked, whoever held it
new_mutex(p) ==
  /\ pc[p] = "new_mutex"
  /\ shm' = [shm EXCEPT ![self[p].mem].lock_init = TRUE, ![self[p].mem].lock = 0]
  /\ pc' = [pc EXCEPT ![p] = "ready"]
  /\ UNCHANGED << shm_name, self, created, element, len, enqueued, dequeued >>

\* lines 47-48 and 55-57: the first shm_open fails with an error other than
\* ENOENT (EACCES, EMFILE, ...); the handle is allocated and holds no descriptor
new_open_fails(p, max_count, element_size) ==
  /\ pc[p] = "idle"
  /\ self' = [self EXCEPT ![p] = [max_count |-> max_count,
                                  element_size |-> element_size,
                                  max_size |-> (max_count * element_size) % ULongModulus,
                                  shmem_fd |-> -1,
                                  mem |-> 0]]
  /\ created' = [created EXCEPT ![p] = FALSE]
  /\ pc' = [pc EXCEPT ![p] = "new_fail"]
  /\ UNCHANGED << shm_name, shm, element, len, enqueued, dequeued >>

\* lines 50-53: the second shm_open fails; created stays false
new_create_fails(p) ==
  /\ pc[p] = "new_create"
  /\ pc' = [pc EXCEPT ![p] = "new_fail"]
  /\ UNCHANGED << shm_name, shm, self, created, element, len, enqueued, dequeued >>

\* lines 60-61: ftruncate fails and leaves the object as it is
new_truncate_fails(p) ==
  /\ pc[p] = "new_truncate"
  /\ pc' = [pc EXCEPT ![p] = "new_fail"]
  /\ UNCHANGED << shm_name, shm, self, created, element, len, enqueued, dequeued >>

\* lines 63-65: mmap fails, for a creator and for a caller that opened an
\* existing object alike
new_mmap_fails(p) ==
  /\ pc[p] = "new_mmap"
  /\ pc' = [pc EXCEPT ![p] = "new_fail"]
  /\ UNCHANGED << shm_name, shm, self, created, element, len, enqueued, dequeued >>

\* lines 82-89, FAIL: with a descriptor open, close it and shm_unlink the
\* name, whether or not created is set; free the handle and return NULL
new_fail(p) ==
  /\ pc[p] = "new_fail"
  /\ shm_name' = IF self[p].shmem_fd # -1 THEN 0 ELSE shm_name
  /\ self' = [self EXCEPT ![p] = NoHandle]
  /\ pc' = [pc EXCEPT ![p] = "idle"]
  /\ UNCHANGED << shm, created, element, len, enqueued, dequeued >>

(***************************************************************************)
(* shmemq_destroy                                                          *)
(***************************************************************************)
\* a teardown that unlinks the name whatever the flag
shmemq_destroy_unlinks(p, unlink) ==
  /\ pc[p] = "ready"
  /\ shm_name' = 0
  /\ self' = [self EXCEPT ![p] = NoHandle]
  /\ pc' = [pc EXCEPT ![p] = "idle"]
  /\ UNCHANGED << shm, created, element, len, enqueued, dequeued >>

\* a teardown that leaves the name linked whatever the flag
shmemq_destroy_keeps(p, unlink) ==
  /\ pc[p] = "ready"
  /\ self' = [self EXCEPT ![p] = NoHandle]
  /\ pc' = [pc EXCEPT ![p] = "idle"]
  /\ UNCHANGED << shm_name, shm, created, element, len, enqueued, dequeued >>

\* lines 130-138: munmap, close, shm_unlink when asked to, free
shmemq_destroy(p, unlink) ==
  /\ pc[p] = "ready"
  /\ shm_name' = IF unlink # 0 THEN 0 ELSE shm_name
  /\ self' = [self EXCEPT ![p] = NoHandle]
  /\ pc' = [pc EXCEPT ![p] = "idle"]
  /\ UNCHANGED << shm, created, element, len, enqueued, dequeued >>

(***************************************************************************)
(* shmemq_try_enqueue and shmemq_try_dequeue                               *)
(***************************************************************************)
\* lines 93 and 112: len != self->element_size compares an int with an
\* unsigned int, so len is converted to unsigned int first
LenMatches(l, h) == ToUInt(l) = h.element_size

\* a queue that counts as full only once an element has been overwritten
IsFull_late(m, h) == USub(m.write_index, m.read_index) > h.max_size

\* line 99: write_index - read_index >= max_size, in unsigned long
IsFull(m, h) == USub(m.write_index, m.read_index) >= h.max_size

\* an emptiness test that lets a dequeue pass on an empty queue
IsEmpty_late(m) == m.read_index > m.write_index

\* line 118: read_index >= write_index
IsEmpty(m) == m.read_index >= m.write_index

\* the index reduced by the number of elements instead of the number of bytes
Offset_by_count(index, h) == index % h.max_count

\* lines 104 and 123: the place of an index in the data array
Offset(index, h) == index % h.max_size

\* line 104: memcpy(&data[offset], element, len)
CopyIn(d, offset, e, n) ==
  [i \in DOMAIN d |-> IF offset <= i /\ i < offset + n THEN e[i - offset + 1] ELSE d[i]]

\* a copy that stops one byte short
CopyOut_short(d, offset, n) ==
  [i \in 1..n |-> IF i < n THEN d[offset + i - 1] ELSE 0]

\* line 123: memcpy(element, &data[offset], len)
CopyOut(d, offset, n) == [i \in 1..n |-> d[offset + i - 1]]

\* a lock taken without waiting for its holder
Lock_nowait(p) ==
  /\ mem(p).size # -1
  /\ shm' = [shm EXCEPT ![self[p].mem].lock = p]

\* a robust mutex: the lock of a holder that died can be taken
Lock_robust(p) ==
  /\ mem(p).size # -1
  /\ IF mem(p).lock = 0 THEN TRUE ELSE pc[mem(p).lock] = "killed"
  /\ shm' = [shm EXCEPT ![self[p].mem].lock = p]

\* pthread_mutex_lock returns once the mutex is free, and then the caller holds it
Lock(p) ==
  /\ mem(p).size # -1
  /\ mem(p).lock = 0
  /\ shm' = [shm EXCEPT ![self[p].mem].lock = p]

\* pthread_mutex_unlock
Unlock(p) == shm' = [shm EXCEPT ![self[p].mem].lock = 0]

\* at the return of a call its arguments are gone
Return(p) ==
  /\ element' = [element EXCEPT ![p] = NoElement]
  /\ len' = [len EXCEPT ![p] = 0]

\* the lengths a caller passes: the element's, and wrong ones around it
Lens(h) == ({h.element_size - UIntModulus, h.element_size - 1,
             h.element_size, h.element_size + 1}) \cap IntRange

\* lines 92-94: a process calls shmemq_try_enqueue(self, element, len); a
\* len that does not match returns false at once
shmemq_try_enqueue(p, e, l) ==
  /\ pc[p] = "ready"
  /\ Len(enqueued[self[p].mem]) < MaxEnqueues
  /\ IF LenMatches(l, self[p])
       THEN /\ element' = [element EXCEPT ![p] = e]
            /\ len' = [len EXCEPT ![p] = l]
            /\ pc' = [pc EXCEPT ![p] = "enq_lock"]
                 ELSE UNCHANGED << element, len, pc >>
  /\ UNCHANGED << shm_name, shm, self, created, enqueued, dequeued >>

\* line 96
enq_lock(p) ==
  /\ pc[p] = "enq_lock"
  /\ Lock(p)
  /\ pc' = [pc EXCEPT ![p] = "enq_test"]
  /\ UNCHANGED << shm_name, self, created, element, len, enqueued, dequeued >>

\* line 99
enq_test(p) ==
  /\ pc[p] = "enq_test"
  /\ pc' = [pc EXCEPT ![p] = IF IsFull(mem(p), self[p]) THEN "enq_full" ELSE "enq_copy"]
  /\ UNCHANGED << shm_name, shm, self, created, element, len, enqueued, dequeued >>

\* a full queue reported without releasing the lock
enq_full_keeps_lock(p) ==
  /\ pc[p] = "enq_full"
  /\ pc' = [pc EXCEPT ![p] = "ready"]
  /\ Return(p)
  /\ UNCHANGED << shm_name, shm, self, created, enqueued, dequeued >>

\* lines 100-101: the call returns false
enq_full(p) ==
  /\ pc[p] = "enq_full"
  /\ Unlock(p)
  /\ pc' = [pc EXCEPT ![p] = "ready"]
  /\ Return(p)
  /\ UNCHANGED << shm_name, self, created, enqueued, dequeued >>

\* line 104
enq_copy(p) ==
  /\ pc[p] = "enq_copy"
  /\ shm' = [shm EXCEPT ![self[p].mem].data =
               CopyIn(@, Offset(mem(p).write_index, self[p]), element[p], len[p])]
  /\ pc' = [pc EXCEPT ![p] = "enq_inc"]
  /\ UNCHANGED << shm_name, self, created, element, len, enqueued, dequeued >>

\* line 105; from here on a dequeue finds the element
enq_inc(p) ==
  /\ pc[p] = "enq_inc"
  /\ shm' = [shm EXCEPT ![self[p].mem].write_index = UAdd(@, self[p].element_size)]
  /\ enqueued' = [enqueued EXCEPT ![self[p].mem] = Append(@, element[p])]
  /\ pc' = [pc EXCEPT ![p] = "enq_unlock"]
  /\ UNCHANGED << shm_name, self, created, element, len, dequeued >>

\* lines 107-108: the call returns true
enq_unlock(p) ==
  /\ pc[p] = "enq_unlock"
  /\ Unlock(p)
  /\ pc' = [pc EXCEPT ![p] = "ready"]
  /\ Return(p)
  /\ UNCHANGED << shm_name, self, created, enqueued, dequeued >>

\* lines 111-113: a process calls shmemq_try_dequeue(self, element, len);
\* element is the buffer the caller receives the payload in
shmemq_try_dequeue(p, l) ==
  /\ pc[p] = "ready"
  /\ IF LenMatches(l, self[p])
       THEN /\ element' = [element EXCEPT ![p] = NoElement]
            /\ len' = [len EXCEPT ![p] = l]
            /\ pc' = [pc EXCEPT ![p] = "deq_lock"]
                 ELSE UNCHANGED << element, len, pc >>
  /\ UNCHANGED << shm_name, shm, self, created, enqueued, dequeued >>

\* line 115
deq_lock(p) ==
  /\ pc[p] = "deq_lock"
  /\ Lock(p)
  /\ pc' = [pc EXCEPT ![p] = "deq_test"]
  /\ UNCHANGED << shm_name, self, created, element, len, enqueued, dequeued >>

\* line 118
deq_test(p) ==
  /\ pc[p] = "deq_test"
  /\ pc' = [pc EXCEPT ![p] = IF IsEmpty(mem(p)) THEN "deq_empty" ELSE "deq_copy"]
  /\ UNCHANGED << shm_name, shm, self, created, element, len, enqueued, dequeued >>

\* a rejected dequeue that returns without releasing the lock
deq_empty_keeps_lock(p) ==
  /\ pc[p] = "deq_empty"
  /\ pc' = [pc EXCEPT ![p] = "ready"]
  /\ Return(p)
  /\ UNCHANGED << shm_name, shm, self, created, enqueued, dequeued >>

\* lines 119-120: the call returns false
deq_empty(p) ==
  /\ pc[p] = "deq_empty"
  /\ Unlock(p)
  /\ pc' = [pc EXCEPT ![p] = "ready"]
  /\ Return(p)
  /\ UNCHANGED << shm_name, self, created, enqueued, dequeued >>

\* line 123
deq_copy(p) ==
  /\ pc[p] = "deq_copy"
  /\ element' = [element EXCEPT ![p] =
                   CopyOut(mem(p).data, Offset(mem(p).read_index, self[p]), len[p])]
  /\ pc' = [pc EXCEPT ![p] = "deq_inc"]
  /\ UNCHANGED << shm_name, shm, self, created, len, enqueued, dequeued >>

\* line 124; from here on the element is gone from the queue
deq_inc(p) ==
  /\ pc[p] = "deq_inc"
  /\ shm' = [shm EXCEPT ![self[p].mem].read_index = UAdd(@, self[p].element_size)]
  /\ dequeued' = [dequeued EXCEPT ![self[p].mem] = Append(@, element[p])]
  /\ pc' = [pc EXCEPT ![p] = "deq_unlock"]
  /\ UNCHANGED << shm_name, self, created, element, len, enqueued >>

\* lines 126-127: the call returns true
deq_unlock(p) ==
  /\ pc[p] = "deq_unlock"
  /\ Unlock(p)
  /\ pc' = [pc EXCEPT ![p] = "ready"]
  /\ Return(p)
  /\ UNCHANGED << shm_name, self, created, enqueued, dequeued >>

(***************************************************************************)
(* The queue as src/main.c uses it: main creates the queue before any      *)
(* other process runs (lines 109-111), the processes then attach with the  *)
(* creator's max_count and element_size, use the queue and detach with     *)
(* shmemq_destroy(queue, 0); main unlinks the name when they are gone.     *)
(* No system call fails.  MaxEnqueues bounds the successful enqueues, so   *)
(* read_index and write_index stay below the wrap of unsigned long.        *)
(***************************************************************************)
Init ==
  /\ shm_name = 1
  /\ shm = [s \in Segs |-> IF s = 1
                             THEN Initialized(ZeroFilled(MaxCount * ElementSize))
                             ELSE NoSegment]
  /\ self = [p \in Procs |-> NoHandle]
  /\ created = [p \in Procs |-> FALSE]
  /\ pc = [p \in Procs |-> "idle"]
  /\ element = [p \in Procs |-> NoElement]
  /\ len = [p \in Procs |-> 0]
  /\ enqueued = [s \in Segs |-> << >>]
  /\ dequeued = [s \in Segs |-> << >>]

Next ==
  \E p \in Procs :
    \/ shmemq_new(p, MaxCount, ElementSize)
    \/ new_mmap(p)
    \/ \E v \in Values, l \in Lens(self[p]) :
         shmemq_try_enqueue(p, Payload(v, self[p].element_size), l)
    \/ enq_lock(p)
    \/ enq_test(p)
    \/ enq_full(p)
    \/ enq_copy(p)
    \/ enq_inc(p)
    \/ enq_unlock(p)
    \/ \E l \in Lens(self[p]) : shmemq_try_dequeue(p, l)
    \/ deq_lock(p)
    \/ deq_test(p)
    \/ deq_empty(p)
    \/ deq_copy(p)
    \/ deq_inc(p)
    \/ deq_unlock(p)
    \/ shmemq_destroy(p, 0)

Spec == Init /\ [][Next]_vars

(***************************************************************************)
(* The queue when nothing creates it beforehand: the name is absent and    *)
(* every process calls shmemq_new on it once and then uses the queue, so   *)
(* the calls race.  Two processes can then be inside the critical section  *)
(* at once; each memcpy is still taken as one step, so the runs of this    *)
(* specification are runs of the program, without the torn copies.         *)
(***************************************************************************)
\* the first access to a mapping of an object that still has length zero:
\* SIGBUS ends the process
sigbus(p) ==
  /\ pc[p] \in {"enq_lock", "deq_lock"}
  /\ mem(p).size = -1
  /\ pc' = [pc EXCEPT ![p] = "killed"]
  /\ UNCHANGED << shm_name, shm, self, created, element, len, enqueued, dequeued >>

InitRace ==
  /\ shm_name = 0
  /\ shm = [s \in Segs |-> NoSegment]
  /\ self = [p \in Procs |-> NoHandle]
  /\ created = [p \in Procs |-> FALSE]
  /\ pc = [p \in Procs |-> "idle"]
  /\ element = [p \in Procs |-> NoElement]
  /\ len = [p \in Procs |-> 0]
  /\ enqueued = [s \in Segs |-> << >>]
  /\ dequeued = [s \in Segs |-> << >>]

NextRace ==
  \E p \in Procs :
    \/ shmemq_new(p, MaxCount, ElementSize)
    \/ new_create(p)
    \/ new_truncate(p)
    \/ new_mmap(p)
    \/ new_store_write_index(p)
    \/ new_store_read_index(p)
    \/ new_mutex(p)
    \/ \E v \in Values, l \in Lens(self[p]) :
         shmemq_try_enqueue(p, Payload(v, self[p].element_size), l)
    \/ enq_lock(p)
    \/ enq_test(p)
    \/ enq_full(p)
    \/ enq_copy(p)
    \/ enq_inc(p)
    \/ enq_unlock(p)
    \/ \E l \in Lens(self[p]) : shmemq_try_dequeue(p, l)
    \/ deq_lock(p)
    \/ deq_test(p)
    \/ deq_empty(p)
    \/ deq_copy(p)
    \/ deq_inc(p)
    \/ deq_unlock(p)
    \/ sigbus(p)

SpecRace == InitRace /\ [][NextRace]_vars

(***************************************************************************)
(* The length check alone, for every element_size a queue can be created   *)
(* with and every len a caller can pass: the processes hold handles of a   *)
(* one-element queue and call the two operations.                          *)
(***************************************************************************)
InitLen ==
  \E es \in UIntRange \ {0} :
    /\ shm_name = 1
    /\ shm = [s \in Segs |-> IF s = 1 THEN Initialized(ZeroFilled(es)) ELSE NoSegment]
    /\ self = [p \in Procs |-> [max_count |-> 1, element_size |-> es,
                                max_size |-> es, shmem_fd |-> 1, mem |-> 1]]
    /\ created = [p \in Procs |-> FALSE]
    /\ pc = [p \in Procs |-> "ready"]
    /\ element = [p \in Procs |-> NoElement]
    /\ len = [p \in Procs |-> 0]
    /\ enqueued = [s \in Segs |-> << >>]
    /\ dequeued = [s \in Segs |-> << >>]

NextLen ==
  \E p \in Procs :
    \/ \E v \in Values, l \in IntRange :
         shmemq_try_enqueue(p, Payload(v, self[p].element_size), l)
    \/ \E l \in IntRange : shmemq_try_dequeue(p, l)

SpecLen == InitLen /\ [][NextLen]_vars

(***************************************************************************)
(* What the properties are stated with                                     *)
(***************************************************************************)
\* the process is between pthread_mutex_lock and pthread_mutex_unlock
InCS(p) == pc[p] \in {"enq_test", "enq_full", "enq_copy", "enq_inc", "enq_unlock",
                      "deq_test", "deq_empty", "deq_copy", "deq_inc", "deq_unlock"}

\* the process is inside shmemq_try_enqueue or shmemq_try_dequeue
InCall(p) == pc[p] \in {"enq_lock", "deq_lock"} \/ InCS(p)

\* the elements of segment s enqueued and not yet dequeued, by the history
Count(s) == Len(enqueued[s]) - Len(dequeued[s])

IsPrefix(a, b) == Len(a) <= Len(b) /\ \A i \in 1..Len(a) : a[i] = b[i]

\* the bytes of the data array the k-th enqueued element of s was copied to
Slot(s, k) ==
  [i \in 1..ElementSize |->
     shm[s].data[(((k - 1) * ElementSize) % (MaxCount * ElementSize)) + i - 1]]

\* C1: FIFO under concurrency.  In every reachable state what the successful
\* dequeues returned, in the order of their critical sections, is a prefix of
\* what the successful enqueues passed, in the order of theirs, and every
\* element enqueued and not yet dequeued is still in the data array: nothing
\* is lost, duplicated or reordered.
C1_Fifo ==
  \A s \in Segs :
    /\ IsPrefix(dequeued[s], enqueued[s])
    /\ \A k \in (Len(dequeued[s]) + 1)..Len(enqueued[s]) : Slot(s, k) = enqueued[s][k]

\* two different payloads came out in the order they went in, the second
\* from a slot the ring reused, while another process is in a call
C1_Witness ==
  /\ Len(dequeued[1]) = MaxCount + 1
  /\ dequeued[1][1] # dequeued[1][MaxCount + 1]
  /\ \E p \in Procs : InCall(p)

\* C2: capacity.  An enqueue with the right length is rejected as full exactly
\* when the queue holds max_count elements, and goes on to copy exactly when
\* it holds fewer.
C2_Capacity ==
  \A p \in Procs :
    /\ pc[p] = "enq_full" => Count(self[p].mem) = self[p].max_count
    /\ pc[p] \in {"enq_copy", "enq_inc"} => Count(self[p].mem) < self[p].max_count

\* an enqueue is rejected by a queue that holds max_count elements after
\* other elements were already dequeued from it
C2_Witness ==
  \E p \in Procs :
    /\ pc[p] = "enq_full"
    /\ Len(enqueued[1]) = MaxCount + 1
    /\ Len(dequeued[1]) = 1

\* C3: index invariant.  write_index - read_index is in [0, max_size], a
\* multiple of element_size, and is element_size times the number of elements
\* in the queue; so the queue is full exactly when the difference is max_size
\* and empty exactly when the indices are equal.
C3_IndexInvariant ==
  \A s \in Segs :
    shm[s].exists =>
      LET d == shm[s].write_index - shm[s].read_index
      IN /\ d \in 0..(MaxCount * ElementSize)
         /\ d % ElementSize = 0
         /\ d = ElementSize * Count(s)
         /\ (d = MaxCount * ElementSize) = (Count(s) = MaxCount)
         /\ (shm[s].read_index = shm[s].write_index) = (Count(s) = 0)
         /\ \A p \in Procs :
              self[p].mem = s =>
                self[p].max_size = MaxCount * ElementSize
                  /\ self[p].element_size = ElementSize

\* the queue is full with both indices beyond max_size
C3_Witness ==
  /\ shm[1].read_index >= MaxCount * ElementSize
  /\ shm[1].write_index - shm[1].read_index = MaxCount * ElementSize
  /\ \E p \in Procs : self[p].mem = 1

\* C4: mutual exclusion.  At most one process is inside the critical section
\* of a segment, and a process that is at a read or write of read_index,
\* write_index or the data array holds the segment's lock.
C4_MutualExclusion ==
  /\ \A p, q \in Procs :
       InCS(p) /\ InCS(q) /\ self[p].mem = self[q].mem => p = q
  /\ \A p \in Procs : InCS(p) => mem(p).lock = p

\* one process is in its critical section while another waits for the lock
C4_Witness ==
  \E p, q \in Procs : pc[p] = "enq_copy" /\ pc[q] = "deq_lock" /\ mem(q).lock = p

\* the processes whose shmemq_new took the creator path on segment s and
\* that still hold the handle
Creators(s) == {p \in Procs : created[p] /\ self[p].shmem_fd = s}

\* the processes that shmemq_new has returned a handle to
HasHandle(p) == pc[p] = "ready" \/ InCall(p)

\* the creator is between creating the object and the end of pthread_mutex_init
Initializing(p) == pc[p] \in {"new_truncate", "new_mmap", "new_init", "new_init_r",
                              "new_init_w", "new_mutex"} /\ created[p]

\* C5: exactly-once initialization under a create race.  Of the calls to
\* shmemq_new on one object at most one takes the creator path (created =
\* true: ftruncate, the stores to the indices, pthread_mutex_init); every
\* other call attaches.
C5_ExactlyOnce == \A s \in Segs : Cardinality(Creators(s)) <= 1

\* C6: initialization precedes use.  A process holds a handle, or is in a
\* call on it, only when the header of its segment is initialized and no
\* creator is still at work on it, and the indices agree with the elements
\* enqueued and not dequeued: no later initialization discards an element.
C6_InitPrecedesUse ==
  \A p \in Procs :
    HasHandle(p) =>
      /\ mem(p).lock_init
      /\ \A q \in Procs : Initializing(q) => self[q].shmem_fd # self[p].mem
      /\ mem(p).write_index - mem(p).read_index
           = self[p].element_size * Count(self[p].mem)

\* C7: length rejection.  A call whose len differs from the handle's
\* element_size returns false before pthread_mutex_lock: a process that is
\* at the lock or beyond it passed the element's length.
C7_LengthRejection ==
  \A p \in Procs : InCall(p) => len[p] = self[p].element_size

\* the steps of a process inside a call
CallStep(p) ==
  \/ enq_lock(p) \/ enq_test(p) \/ enq_full(p) \/ enq_copy(p) \/ enq_inc(p)
  \/ enq_unlock(p)
  \/ deq_lock(p) \/ deq_test(p) \/ deq_empty(p) \/ deq_copy(p) \/ deq_inc(p)
  \/ deq_unlock(p)

\* C8 as claimed: non-blocking.  A process inside a call can always take its
\* next step, whatever the other processes do.
C8_NonBlocking == \A p \in Procs : InCall(p) => ENABLED CallStep(p)

\* C8 as amended: a call never waits for the queue to become non-full or
\* non-empty.  The one step that can wait is pthread_mutex_lock, and it waits
\* only while another process is inside its critical section on the same
\* segment, which that process can leave by its own steps alone.
C8_WaitsOnlyForLock ==
  \A p \in Procs :
    InCall(p) =>
      \/ ENABLED CallStep(p)
      \/ /\ pc[p] \in {"enq_lock", "deq_lock"}
         /\ \E q \in Procs \ {p} :
              /\ mem(p).lock = q
              /\ self[q].mem = self[p].mem
              /\ InCS(q)
              /\ ENABLED CallStep(q)

\* a dequeue waits for the lock while an enqueue that found the queue full
\* holds it
C8_Witness ==
  \E p, q \in Procs :
    pc[p] = "deq_lock" /\ pc[q] = "enq_full" /\ mem(p).lock = q /\ ~ENABLED CallStep(p)

\* C9: round trip.  A dequeue from a queue that holds an element is not
\* rejected as empty, and a dequeue from a queue that holds one element only
\* (enqueued into the empty queue) copies out exactly the bytes that were
\* enqueued, element_size of them.
C9_RoundTrip ==
  \A p \in Procs :
    LET s == self[p].mem
    IN /\ pc[p] = "deq_empty" => Count(s) = 0
       /\ pc[p] = "deq_copy" => Count(s) > 0
       /\ pc[p] = "deq_inc" /\ Count(s) = 1 =>
            /\ element[p] = enqueued[s][Len(enqueued[s])]
            /\ Len(element[p]) = self[p].element_size

\* the one element of a queue whose indices are beyond max_size has been
\* copied out
C9_Witness ==
  \E p \in Procs :
    /\ pc[p] = "deq_inc"
    /\ Count(1) = 1
    /\ mem(p).read_index >= self[p].max_size
    /\ element[p] = Payload(NumValues, ElementSize)

\* the process tears its handle down
Detaches(p) == pc[p] = "ready" /\ pc'[p] = "idle"

\* the process obtains a handle
Attaches(p) == pc[p] \in {"idle", "new_mmap"} /\ pc'[p] # pc[p]

\* C10: attach reuse.  shmemq_destroy without unlink and a later shmemq_new
\* leave the segment (lock, indices, data array) and its name as they are;
\* and while no process holds a handle the segment is still linked, unlocked,
\* its indices hold the elements enqueued and not yet dequeued, and these are
\* in the data array in their order.
C10_AttachReuse ==
  /\ [][\A p \in Procs : Detaches(p) \/ Attaches(p) => shared' = shared]_vars
  /\ []((\A p \in Procs : pc[p] = "idle") =>
          /\ shm_name = 1
          /\ shm[1].lock = 0
          /\ shm[1].write_index - shm[1].read_index = ElementSize * Count(1)
          /\ \A k \in (Len(dequeued[1]) + 1)..Len(enqueued[1]) :
               Slot(1, k) = enqueued[1][k])

\* every handle is torn down while the queue holds two different elements,
\* after one was dequeued
C10_Witness ==
  /\ \A p \in Procs : pc[p] = "idle"
  /\ Len(dequeued[1]) = 1
  /\ Len(enqueued[1]) = 3
  /\ enqueued[1][2] # enqueued[1][3]

(***************************************************************************)
(* The life of the name over several generations: the queue exists, the   *)
(* processes attach, use it and tear their handles down, with or without   *)
(* shm_unlink; a shmemq_new that finds the name absent creates the next    *)
(* object.  The callers serialise shmemq_new as src/main.c does (lines     *)
(* 109-111 run before any fork): a call starts only while no other call of *)
(* shmemq_new is under way.  No system call fails.  Every element carries  *)
(* the object it was enqueued to, and every call passes the right len.     *)
(***************************************************************************)
InNew(p) == pc[p] \in {"new_create", "new_truncate", "new_mmap", "new_init",
                       "new_init_r", "new_init_w", "new_mutex", "new_fail"}

\* the calls of shmemq_try_enqueue so far, on all the objects the name has
\* had: those that succeeded and those under way
RECURSIVE EnqueuesUpTo(_)
EnqueuesUpTo(s) == IF s = 0 THEN 0 ELSE Len(enqueued[s]) + EnqueuesUpTo(s - 1)

InEnqueue(p) == pc[p] \in {"enq_lock", "enq_test", "enq_full", "enq_copy",
                           "enq_inc", "enq_unlock"}

EnqueueCalls == EnqueuesUpTo(MaxSegs) + Cardinality({p \in Procs : InEnqueue(p)})

\* the max_count of the queue in this specification: small, so that the few
\* calls fill it
LifeCount == MaxCount - 1

InitUnlink ==
  /\ shm_name = 1
  /\ shm = [s \in Segs |-> IF s = 1
                             THEN Initialized(ZeroFilled(LifeCount * ElementSize))
                             ELSE NoSegment]
  /\ self = [p \in Procs |-> NoHandle]
  /\ created = [p \in Procs |-> FALSE]
  /\ pc = [p \in Procs |-> "idle"]
  /\ element = [p \in Procs |-> NoElement]
  /\ len = [p \in Procs |-> 0]
  /\ enqueued = [s \in Segs |-> << >>]
  /\ dequeued = [s \in Segs |-> << >>]

NextUnlink ==
  \E p \in Procs :
    \/ (\A q \in Procs : ~InNew(q)) /\ shmemq_new(p, LifeCount, ElementSize)
    \/ new_create(p)
    \/ new_truncate(p)
    \/ new_mmap(p)
    \/ new_store_write_index(p)
    \/ new_store_read_index(p)
    \/ new_mutex(p)
    \/ /\ EnqueueCalls < MaxEnqueues - 1
       /\ shmemq_try_enqueue(p, Payload(self[p].mem, self[p].element_size),
                             self[p].element_size)
    \/ enq_lock(p)
    \/ enq_test(p)
    \/ enq_full(p)
    \/ enq_copy(p)
    \/ enq_inc(p)
    \/ enq_unlock(p)
    \/ shmemq_try_dequeue(p, self[p].element_size)
    \/ deq_lock(p)
    \/ deq_test(p)
    \/ deq_empty(p)
    \/ deq_copy(p)
    \/ deq_inc(p)
    \/ deq_unlock(p)
    \/ shmemq_destroy(p, 0)
    \/ shmemq_destroy(p, 1)

SpecUnlink == InitUnlink /\ [][NextUnlink]_vars

\* the step is the start of a call of shmemq_new by p
StartsNew(p) == pc[p] = "idle" /\ pc'[p] # "idle"

\* C11: a shmemq_destroy with unlink # 0 leaves the name absent and the
\* objects as they are; a shmemq_new that starts while the name is absent
\* takes the creating path; the creator, once read_index and write_index are
\* stored, holds an object other than the one the name had at the start, with
\* both indices 0 and no element, whatever the older objects hold and whoever
\* maps them; and a dequeue on any object copies out only while that object
\* holds an element, and what it copies out was enqueued to that object.
C11_UnlinkIsolation ==
  /\ [][\A p \in Procs :
         /\ shmemq_destroy(p, 1) => shm_name' = 0 /\ shm' = shm
         /\ StartsNew(p) /\ shm_name = 0 => pc'[p] = "new_create"]_vars
  /\ [](\A p \in Procs :
         /\ pc[p] = "new_mutex" =>
               /\ self[p].mem # 1
               /\ mem(p).read_index = 0
               /\ mem(p).write_index = 0
               /\ Count(self[p].mem) = 0
         /\ pc[p] \in {"deq_copy", "deq_inc"} => Count(self[p].mem) > 0
         /\ pc[p] = "deq_empty" => Count(self[p].mem) = 0
         /\ pc[p] = "deq_inc" => element[p] = Payload(self[p].mem, ElementSize))

\* a creator about to return its handle to the second object while the first
\* object still holds an element and another process still maps it
C11_Witness ==
  \E p, q \in Procs :
    /\ pc[p] = "new_mutex"
    /\ self[p].mem = 2
    /\ Count(1) > 0
    /\ HasHandle(q)
    /\ self[q].mem = 1

(***************************************************************************)
(* The queue when system calls of shmemq_new can fail: the queue exists,   *)
(* the processes attach, use it and detach with shmemq_destroy(queue, 0),  *)
(* and any shm_open, ftruncate or mmap of a shmemq_new may fail.  Nobody   *)
(* asks for the name to be unlinked; shmemq_new calls are serialised.      *)
(***************************************************************************)
NextFail ==
  \E p \in Procs :
    \/ (\A q \in Procs : ~InNew(q)) /\ shmemq_new(p, LifeCount, ElementSize)
    \/ (\A q \in Procs : ~InNew(q)) /\ new_open_fails(p, LifeCount, ElementSize)
    \/ new_create(p)
    \/ new_create_fails(p)
    \/ new_truncate(p)
    \/ new_truncate_fails(p)
    \/ new_mmap(p)
    \/ new_mmap_fails(p)
    \/ new_fail(p)
    \/ new_store_write_index(p)
    \/ new_store_read_index(p)
    \/ new_mutex(p)
    \/ /\ EnqueueCalls < MaxEnqueues - 1
       /\ shmemq_try_enqueue(p, Payload(self[p].mem, self[p].element_size),
                             self[p].element_size)
    \/ enq_lock(p)
    \/ enq_test(p)
    \/ enq_full(p)
    \/ enq_copy(p)
    \/ enq_inc(p)
    \/ enq_unlock(p)
    \/ shmemq_try_dequeue(p, self[p].element_size)
    \/ deq_lock(p)
    \/ deq_test(p)
    \/ deq_empty(p)
    \/ deq_copy(p)
    \/ deq_inc(p)
    \/ deq_unlock(p)
    \/ shmemq_destroy(p, 0)

SpecFail == InitUnlink /\ [][NextFail]_vars

\* the step is the return of a failed shmemq_new by p
FailsNew(p) == pc[p] = "new_fail" /\ pc'[p] = "idle"

\* C12: a shmemq_new that fails returns no handle, and it removes the name
\* only if the call itself created the object: a failed call that opened an
\* object that existed before leaves the name linked to it.
C12_FailureCleanup ==
  [][\A p \in Procs :
       FailsNew(p) => /\ self'[p] = NoHandle
                      /\ ~created[p] => shm_name' = shm_name]_vars

(***************************************************************************)
(* The queue when the callers of shmemq_new disagree about its geometry:   *)
(* the queue exists with MaxCount elements of ElementSize bytes, and each  *)
(* process attaches with that max_count or with a smaller one.  The        *)
(* smaller max_size keeps every access inside the object's data array.     *)
(***************************************************************************)
Geometries == {<< MaxCount, ElementSize >>, << MaxCount - 1, ElementSize >>}

NextGeom ==
  \E p \in Procs :
    \/ \E g \in Geometries : shmemq_new(p, g[1], g[2])
    \/ new_mmap(p)
    \/ /\ EnqueueCalls < MaxEnqueues - 1
       /\ \E v \in Values :
            shmemq_try_enqueue(p, Payload(v, self[p].element_size),
                               self[p].element_size)
    \/ enq_lock(p)
    \/ enq_test(p)
    \/ enq_full(p)
    \/ enq_copy(p)
    \/ enq_inc(p)
    \/ enq_unlock(p)
    \/ shmemq_try_dequeue(p, self[p].element_size)
    \/ deq_lock(p)
    \/ deq_test(p)
    \/ deq_empty(p)
    \/ deq_copy(p)
    \/ deq_inc(p)
    \/ deq_unlock(p)

SpecGeom == Init /\ [][NextGeom]_vars

\* the step maps an object p opened and did not create
MapsExisting(p) == pc[p] = "new_mmap" /\ ~created[p] /\ pc'[p] # pc[p]

\* C13: shmemq_new on an existing object returns a handle whatever max_count
\* and element_size the caller passed: the handle keeps the caller's geometry,
\* the object keeps its size and content, and nothing compares the two.  (The
\* witness is the consequence: with handles of different max_size on one
\* object a dequeue copies out something other than the oldest element.)
C13_UnverifiedGeometry ==
  [][\A p \in Procs :
       MapsExisting(p) =>
         /\ pc'[p] = "ready"
         /\ self'[p].mem = self[p].shmem_fd
         /\ self'[p].max_size = self[p].max_size
         /\ self'[p].element_size = self[p].element_size
         /\ shm' = shm]_vars

\* two handles of different max_size on the object, and what was dequeued
\* from it is not what was enqueued first
C13_Witness ==
  /\ \E p, q \in Procs : /\ HasHandle(p)
                          /\ HasHandle(q)
                          /\ self[p].mem = self[q].mem
                          /\ self[p].max_size # self[q].max_size
  /\ ~IsPrefix(dequeued[1], enqueued[1])

(***************************************************************************)
(* The queue near the wrap of unsigned long.  The processes hold handles   *)
(* of the queue, which is empty after so many enqueues and dequeues of the *)
(* first payload that read_index = write_index is one of the last          *)
(* multiples of element_size below 2^IndexBits; every slot of the data     *)
(* array then holds that payload.  The histories start at that state.      *)
(***************************************************************************)
\* the last value below the wrap that the indices can take
LastIndex == ElementSize * ((ULongModulus - 1) \div ElementSize)

WrapStarts == {LastIndex - k * ElementSize : k \in 0..(MaxCount - 1)}

InitWrap ==
  \E i \in WrapStarts :
    /\ shm_name = 1
    /\ shm = [s \in Segs |->
                IF s = 1
                  THEN [exists |-> TRUE, size |-> MaxCount * ElementSize,
                        lock_init |-> TRUE, lock |-> 0,
                        read_index |-> i, write_index |-> i,
                        data |-> [j \in 0..(MaxCount * ElementSize - 1) |->
                                    Payload(1, ElementSize)[(j % ElementSize) + 1]]]
                  ELSE NoSegment]
    /\ self = [p \in Procs |-> [max_count |-> MaxCount, element_size |-> ElementSize,
                                max_size |-> MaxCount * ElementSize,
                                shmem_fd |-> 1, mem |-> 1]]
    /\ created = [p \in Procs |-> FALSE]
    /\ pc = [p \in Procs |-> "ready"]
    /\ element = [p \in Procs |-> NoElement]
    /\ len = [p \in Procs |-> 0]
    /\ enqueued = [s \in Segs |-> << >>]
    /\ dequeued = [s \in Segs |-> << >>]

NextWrap ==
  \E p \in Procs :
    \/ \E v \in Values :
         shmemq_try_enqueue(p, Payload(v, self[p].element_size),
                            self[p].element_size)
    \/ enq_lock(p)
    \/ enq_test(p)
    \/ enq_full(p)
    \/ enq_copy(p)
    \/ enq_inc(p)
    \/ enq_unlock(p)
    \/ shmemq_try_dequeue(p, self[p].element_size)
    \/ deq_lock(p)
    \/ deq_test(p)
    \/ deq_empty(p)
    \/ deq_copy(p)
    \/ deq_inc(p)
    \/ deq_unlock(p)

SpecWrap == InitWrap /\ [][NextWrap]_vars

\* C14: with counters of IndexBits bits, write_index - read_index taken
\* modulo 2^IndexBits is at least 0 and at most max_size, and it is
\* element_size times the number of elements enqueued and not yet dequeued,
\* in every reachable state, those after write_index wrapped included.
C14_WrapDifference ==
  LET d == (shm[1].write_index - shm[1].read_index + 2 ^ IndexBits) % (2 ^ IndexBits)
  IN /\ d >= 0
     /\ d <= MaxCount * ElementSize
     /\ d = ElementSize * Count(1)

\* write_index has wrapped, read_index has not, and the queue holds elements
C14_Witness ==
  /\ shm[1].write_index < shm[1].read_index
  /\ Count(1) > 0

\* C15: a dequeue with the right length returns false only when the queue
\* holds no element that was enqueued and not yet dequeued, also after
\* write_index wrapped while read_index has not.
C15_EmptinessTest ==
  \A p \in Procs : pc[p] = "deq_empty" => Count(self[p].mem) = 0

\* C16: a lock that is held is held by a process between the
\* pthread_mutex_lock and the pthread_mutex_unlock of one call on that
\* segment, so a process outside a call holds no lock; and what the holder
\* has done since it took the lock is at most its own call's one element:
\* nothing up to the increment, and after it the last element enqueued (or
\* dequeued) is the one of this call.
C16_LockScope ==
  /\ \A s \in Segs : shm[s].lock # 0 =>
        /\ InCS(shm[s].lock)
        /\ self[shm[s].lock].mem = s
  /\ \A p \in Procs :
        /\ ~InCall(p) => \A s \in Segs : shm[s].lock # p
        /\ pc[p] \in {"enq_test", "enq_full", "enq_copy", "enq_inc"} =>
              mem(p).write_index = ElementSize * Len(enqueued[self[p].mem])
        /\ pc[p] = "enq_unlock" =>
              /\ mem(p).write_index = ElementSize * Len(enqueued[self[p].mem])
              /\ enqueued[self[p].mem][Len(enqueued[self[p].mem])] = element[p]
        /\ pc[p] \in {"deq_test", "deq_empty", "deq_copy", "deq_inc"} =>
              mem(p).read_index = ElementSize * Len(dequeued[self[p].mem])
        /\ pc[p] = "deq_unlock" =>
              /\ mem(p).read_index = ElementSize * Len(dequeued[self[p].mem])
              /\ dequeued[self[p].mem][Len(dequeued[self[p].mem])] = element[p]

\* a process has done its element's work and still holds the lock, after a
\* dequeue succeeded, and another process is between two calls
C16_Witness ==
  \E p, q \in Procs :
    /\ pc[p] \in {"enq_unlock", "deq_unlock"}
    /\ shm[self[p].mem].lock = p
    /\ pc[q] = "ready"
    /\ Len(dequeued[1]) > 0

\* the step changes byte i of the data array of segment s
Writes(s, i) == shm'[s].data[i] # shm[s].data[i]

\* C17: a successful enqueue changes write_index, by exactly element_size,
\* and the element_size bytes of the data array at write_index mod max_size,
\* and leaves read_index and every other byte as they are; a successful
\* dequeue changes read_index, by exactly element_size, and leaves
\* write_index and the data array as they are; a call rejected because the
\* queue is full or empty changes neither the indices nor the data array.
\* Hence no step decreases an index.
C17_Frame ==
  [][\A s \in Segs : shm[s].exists =>
       LET m == shm[s]
           n == shm'[s]
       IN /\ n.write_index >= m.write_index
          /\ n.read_index >= m.read_index
          /\ n.write_index # m.write_index =>
                /\ \E p \in Procs : pc[p] = "enq_inc" /\ pc'[p] = "enq_unlock"
                /\ n.write_index = m.write_index + ElementSize
                /\ n.read_index = m.read_index
                /\ n.data = m.data
          /\ n.read_index # m.read_index =>
                /\ \E p \in Procs : pc[p] = "deq_inc" /\ pc'[p] = "deq_unlock"
                /\ n.read_index = m.read_index + ElementSize
                /\ n.write_index = m.write_index
                /\ n.data = m.data
          /\ n.data # m.data =>
                /\ \E p \in Procs : pc[p] = "enq_copy" /\ pc'[p] = "enq_inc"
                /\ \A i \in 0..(m.size - 1) :
                     Writes(s, i) =>
                       /\ i >= m.write_index % (MaxCount * ElementSize)
                       /\ i < (m.write_index % (MaxCount * ElementSize)) + ElementSize
          /\ (\E p \in Procs : /\ self[p].mem = s
                                /\ pc[p] \in {"enq_test", "enq_full", "deq_test", "deq_empty"}
                                /\ pc'[p] \in {"enq_full", "deq_empty", "ready"}) =>
                /\ n.write_index = m.write_index
                /\ n.read_index = m.read_index
                /\ n.data = m.data]_vars

\* an enqueue is rejected after an enqueue and a dequeue succeeded
C17_Witness ==
  /\ Len(dequeued[1]) > 0
  /\ shm[1].write_index > shm[1].read_index
  /\ \E p \in Procs : pc[p] = "enq_full"

(***************************************************************************)
(* The queue when a process can die inside a call: the processes hold      *)
(* handles of the empty queue and call the two operations, and a process   *)
(* between pthread_mutex_lock and pthread_mutex_unlock may terminate (a    *)
(* signal, exit in another thread).  The mutex is not robust (line 77), so *)
(* the operating system leaves it as it is.                                *)
(***************************************************************************)
crash(p) ==
  /\ InCS(p)
  /\ pc' = [pc EXCEPT ![p] = "killed"]
  /\ UNCHANGED << shm_name, shm, self, created, element, len, enqueued, dequeued >>

InitCrash ==
  /\ shm_name = 1
  /\ shm = [s \in Segs |-> IF s = 1
                             THEN Initialized(ZeroFilled(MaxCount * ElementSize))
                             ELSE NoSegment]
  /\ self = [p \in Procs |-> [max_count |-> MaxCount, element_size |-> ElementSize,
                              max_size |-> MaxCount * ElementSize,
                              shmem_fd |-> 1, mem |-> 1]]
  /\ created = [p \in Procs |-> FALSE]
  /\ pc = [p \in Procs |-> "ready"]
  /\ element = [p \in Procs |-> NoElement]
  /\ len = [p \in Procs |-> 0]
  /\ enqueued = [s \in Segs |-> << >>]
  /\ dequeued = [s \in Segs |-> << >>]

NextCrash ==
  \E p \in Procs :
    \/ \E v \in Values :
         shmemq_try_enqueue(p, Payload(v, self[p].element_size),
                            self[p].element_size)
    \/ enq_lock(p)
    \/ enq_test(p)
    \/ enq_full(p)
    \/ enq_copy(p)
    \/ enq_inc(p)
    \/ enq_unlock(p)
    \/ shmemq_try_dequeue(p, self[p].element_size)
    \/ deq_lock(p)
    \/ deq_test(p)
    \/ deq_empty(p)
    \/ deq_copy(p)
    \/ deq_inc(p)
    \/ deq_unlock(p)
    \/ crash(p)

SpecCrash == InitCrash /\ [][NextCrash]_vars

\* C18: once a process has terminated between pthread_mutex_lock and
\* pthread_mutex_unlock, it holds the segment's lock in every later state,
\* and every other process inside a call on that segment is at its
\* pthread_mutex_lock and has no step: no later call returns.
C18_CrashHoldsLock ==
  \A q \in Procs : pc[q] = "killed" =>
    /\ shm[self[q].mem].lock = q
    /\ \A p \in Procs \ {q} :
          self[p].mem = self[q].mem /\ InCall(p) =>
            /\ pc[p] \in {"enq_lock", "deq_lock"}
            /\ ~ENABLED CallStep(p)

\* a process died holding the lock and the others have called the
\* operations since: every one of them waits at pthread_mutex_lock
C18_Witness ==
  \E q \in Procs :
    /\ pc[q] = "killed"
    /\ \A p \in Procs \ {q} : pc[p] \in {"enq_lock", "deq_lock"}

(***************************************************************************)
(* The harness of src/main.c: main has created both queues, the server and *)
(* the client process have attached to both, and each runs its loop.  The  *)
(* variable self holds the handle a process passes to its current call.    *)
(* The loops keep no state of their own besides i and the position in the  *)
(* body, and both follow from the calls that have returned true, which the *)
(* histories record.                                                       *)
(***************************************************************************)
Server == 1

Client == 2

ServerQueue == 1

ClientQueue == 2

\* the handle of queue q, as shmemq_new returned it
Handle(q) == [max_count |-> MaxCount, element_size |-> ElementSize,
              max_size |-> MaxCount * ElementSize, shmem_fd |-> q, mem |-> q]

\* i of the server's loop: the iterations it has completed
ServerI == Len(enqueued[ClientQueue])

\* i of the client's loop
ClientI == Len(dequeued[ClientQueue])

\* a client that sends its next message without waiting for the reply
ClientSending_ahead == Len(enqueued[ServerQueue]) < Repetitions

\* the client is at line 83 (it has not sent the message of iteration i yet);
\* otherwise it is at line 85
ClientSending == Len(enqueued[ServerQueue]) = ClientI

\* the server is at line 45 (it has not received the message of iteration i
\* yet); otherwise it is at line 47
ServerReceiving == Len(dequeued[ServerQueue]) = ServerI

\* msg of the client: the initial message, overwritten by each reply
ClientMsg == IF ClientI = 0 THEN Payload(1, ElementSize)
             ELSE dequeued[ClientQueue][ClientI]

\* msg of the server when it replies: what it has just received
ServerMsg == dequeued[ServerQueue][Len(dequeued[ServerQueue])]

\* the process passes the handle of queue q to its next call
select(p, q) ==
  /\ pc[p] = "ready"
  /\ self[p].mem # q
  /\ self' = [self EXCEPT ![p] = Handle(q)]
  /\ UNCHANGED << shm_name, shm, created, pc, element, len, enqueued, dequeued >>

\* lines 82-86
client ==
  /\ ClientI < Repetitions
  /\ IF ClientSending
       THEN IF self[Client].mem # ServerQueue
              THEN select(Client, ServerQueue)
              ELSE shmemq_try_enqueue(Client, ClientMsg, ElementSize)
       ELSE IF self[Client].mem # ClientQueue
              THEN select(Client, ClientQueue)
              ELSE shmemq_try_dequeue(Client, ElementSize)

\* lines 44-48
server ==
  /\ ServerI < Repetitions
  /\ IF ServerReceiving
       THEN IF self[Server].mem # ServerQueue
              THEN select(Server, ServerQueue)
              ELSE shmemq_try_dequeue(Server, ElementSize)
       ELSE IF self[Server].mem # ClientQueue
              THEN select(Server, ClientQueue)
              ELSE shmemq_try_enqueue(Server, ServerMsg, ElementSize)

\* main, lines 109-122: both queues exist and are empty, the children run
InitHarness ==
  /\ shm_name = ServerQueue
  /\ shm = [s \in Segs |-> IF s \in {ServerQueue, ClientQueue}
                             THEN Initialized(ZeroFilled(MaxCount * ElementSize))
                             ELSE NoSegment]
  /\ self = [p \in Procs |-> IF p \in {Server, Client} THEN Handle(ServerQueue)
                                                       ELSE NoHandle]
  /\ created = [p \in Procs |-> FALSE]
  /\ pc = [p \in Procs |-> IF p \in {Server, Client} THEN "ready" ELSE "idle"]
  /\ element = [p \in Procs |-> NoElement]
  /\ len = [p \in Procs |-> 0]
  /\ enqueued = [s \in Segs |-> << >>]
  /\ dequeued = [s \in Segs |-> << >>]

\* the steps of p other than its pthread_mutex_lock.  No enqueue of the
\* harness finds its queue full (C19 checks it), so the rejecting path of
\* shmemq_try_enqueue has no step here.
Runs(p) ==
  \/ enq_test(p) \/ enq_copy(p) \/ enq_inc(p) \/ enq_unlock(p)
  \/ deq_test(p) \/ deq_empty(p) \/ deq_copy(p) \/ deq_inc(p) \/ deq_unlock(p)

NextHarness ==
  \/ client
  \/ server
  \/ \E p \in {Server, Client} :
       \/ enq_lock(p)
       \/ enq_test(p)
       \/ enq_copy(p)
       \/ enq_inc(p)
       \/ enq_unlock(p)
       \/ deq_lock(p)
       \/ deq_test(p)
       \/ deq_empty(p)
       \/ deq_copy(p)
       \/ deq_inc(p)
       \/ deq_unlock(p)

\* each child keeps running, and a child that waits for a lock gets it if the
\* lock is free again and again
SpecHarness ==
  /\ InitHarness
  /\ [][NextHarness]_vars
  /\ WF_vars(client)
  /\ WF_vars(server)
  /\ \A p \in {Server, Client} :
        /\ WF_vars(Runs(p))
        /\ SF_vars(enq_lock(p))
        /\ SF_vars(deq_lock(p))

\* both loops have run REPETITIONS times and no call is under way
Done ==
  /\ ClientI = Repetitions
  /\ ServerI = Repetitions
  /\ pc[Client] = "ready"
  /\ pc[Server] = "ready"

\* C19: with both queues created empty before the children run, the two
\* queues together never hold more than one message (so no enqueue is
\* rejected), and with a fair lock and no crash both children complete all
\* their iterations.
C19_PingPong ==
  /\ [](Count(ServerQueue) + Count(ClientQueue) <= 1)
  /\ [](\A p \in {Server, Client} : pc[p] # "enq_full")
  /\ <>Done

\* both loops have completed and both queues are empty again
C19_Witness ==
  /\ Done
  /\ Count(ServerQueue) = 0
  /\ Count(ClientQueue) = 0
  /\ Len(dequeued[ClientQueue]) = Repetitions

\* C20: all the handles that shmemq_new has returned for the name and that
\* are still live refer to the same shared memory object, whatever calls of
\* shmemq_new (failing ones included) and of shmemq_destroy other processes
\* have made in between.
C20_SingleSegment ==
  \A p, q \in Procs : HasHandle(p) /\ HasHandle(q) => self[p].mem = self[q].mem

====
